---- MODULE Spec2Model ----
(***************************************************************************)
(* Model of the RV32GV simulator driver (riscv/rv32gv_sim.cc) and of the   *)
(* RV32 bit manipulation semantic functions                                *)
(* (riscv/riscv_bitmanip_instructions.cc).                                 *)
(*                                                                         *)
(* A 32-bit register value (UIntReg) is modelled as the set of the         *)
(* positions of its 1 bits, a subset of 0..31: bitwise operators are set   *)
(* operators, and a shift moves the positions and drops those that leave   *)
(* the 32-bit width.                                                       *)
(***************************************************************************)
EXTENDS Integers, FiniteSets, Sequences, TLC

VARIABLES
    \* bit manipulation instructions
    rs1,        \* value of the first source register
    rs2,        \* value of the second source register
    rd,         \* value of the destination register
    last,       \* the instruction executed last: [op, a, b, r]
    ninst,      \* number of instructions executed
    oversize,   \* TRUE when the last instruction evaluated a shift by >= 32
    \* simulator driver
    cmd,        \* the command line: flags and number of input files
    pc,         \* position of main()
    exit_code,  \* exit status of the process, once pc = "exited"
    elf,        \* what the ELF loader answered so far
    stk,        \* locals of the stack pointer initialization, and sp
    semi,       \* semihosting objects installed on the core
    top,        \* the static RiscVTop *top
    handler,    \* TRUE once sigaction() installed sim_sigint_handler
    core,       \* the RiscVTop instance riscv_top
    hist        \* history: what happened so far

bvars == <<rs1, rs2, rd, last, ninst, oversize>>

dvars == <<cmd, pc, exit_code, elf, stk, semi, top, handler, core, hist>>

vars == <<rs1, rs2, rd, last, ninst, oversize,
          cmd, pc, exit_code, elf, stk, semi, top, handler, core, hist>>

-----------------------------------------------------------------------------
(* 32-bit words *)

kXlen == 32

\* Largest shift amount of the small rs2 values tried (0..MaxShamt).
MaxShamt == 34

\* Instructions executed in one behaviour.
MaxInsts == 1

BitPos == 0..(kXlen - 1)

\* The word of a natural number below 2^31.
WordOf(n) == {i \in 0..(kXlen - 2) : (n \div (2 ^ i)) % 2 = 1}

AllOnes == BitPos

\* a << s and a >> s for an in-range shift amount 0 <= s < 32.
Shl(a, s) == {i + s : i \in a} \cap BitPos

Shr(a, s) == {i - s : i \in {j \in a : j >= s}}

Xor(a, b) == (a \ b) \cup (b \ a)

\* (b >> i) & 1, as a truth value
BitSet(b, i) == (Shr(b, i) \cap WordOf(1)) /= {}

\* x - y on uint32_t (wraps modulo 2^32): x + ~y + 1 by ripple carry.
RECURSIVE AddBits(_, _, _, _)
AddBits(a, b, i, c) ==
    IF i = kXlen THEN {}
    ELSE LET s == (IF i \in a THEN 1 ELSE 0) + (IF i \in b THEN 1 ELSE 0) + c
         IN  (IF s % 2 = 1 THEN {i} ELSE {}) \cup AddBits(a, b, i + 1, s \div 2)

Sub32(x, y) == AddBits(x, BitPos \ y, 0, 1)

\* A shift amount held in a uint32_t: whether it is 32 or more, and its low
\* five bits.
Oversize(s) == \E i \in s : i >= 5

ShAmt(s) ==
    (IF 0 \in s THEN 1 ELSE 0) + (IF 1 \in s THEN 2 ELSE 0)
    + (IF 2 \in s THEN 4 ELSE 0) + (IF 3 \in s THEN 8 ELSE 0)
    + (IF 4 \in s THEN 16 ELSE 0)

\* a << s and a >> s where s is a uint32_t. A shift by 32 or more is undefined
\* in C++: the build either shifts by the low five bits of s (x86 shl/shr) or
\* yields 0 (a shifter that saturates); both outcomes are possible.
ShlUB(a, s) ==
    IF Oversize(s) THEN {Shl(a, ShAmt(s)), {}} ELSE {Shl(a, ShAmt(s))}

ShrUB(a, s) ==
    IF Oversize(s) THEN {Shr(a, ShAmt(s)), {}} ELSE {Shr(a, ShAmt(s))}

-----------------------------------------------------------------------------
(* Semantic functions: the lambdas given to RiscVBinaryOp *)

\* rol: (a << b) | (a >> (32 - b))
RolShifts(b) == {b, Sub32(WordOf(32), b)}

RolResults(a, b) ==
    {l \cup r : l \in ShlUB(a, b), r \in ShrUB(a, Sub32(WordOf(32), b))}

\* ror: (a >> b) | (a << (32 - b))
RorResults(a, b) ==
    {r \cup l : r \in ShrUB(a, b), l \in ShlUB(a, Sub32(WordOf(32), b))}

\* clmul: for (i = 0; i < kXlen; i++) result ^= (b >> i) & 1 ? a << i : 0
ClmulEndMutant == kXlen - 1

ClmulEnd == kXlen

RECURSIVE ClmulLoop(_, _, _, _)
ClmulLoop(a, b, i, result) ==
    IF i < ClmulEnd
    THEN ClmulLoop(a, b, i + 1,
                   IF BitSet(b, i) THEN Xor(result, Shl(a, i)) ELSE result)
    ELSE result

Clmul(a, b) == ClmulLoop(a, b, 0, {})

\* clmulh: for (i = 1; i < kXlen; i++) result ^= (b >> i) & 1 ? a >> (kXlen - i) : 0
ClmulhShiftMutant(i) == kXlen - i - 1

ClmulhShift(i) == kXlen - i

ClmulhRange == 1..(kXlen - 1)

RECURSIVE ClmulhLoop(_, _, _, _)
ClmulhLoop(a, b, i, result) ==
    IF i < kXlen
    THEN ClmulhLoop(a, b, i + 1,
                    IF BitSet(b, i) THEN Xor(result, Shr(a, ClmulhShift(i)))
                    ELSE result)
    ELSE result

Clmulh(a, b) == ClmulhLoop(a, b, 1, {})

\* clmulr: for (i = 0; i < kXlen - 1; i++)
\*             result ^= (b >> i) & 1 ? a >> (kXlen - i - 1) : 0
RECURSIVE ClmulrLoop(_, _, _, _)
ClmulrLoop(a, b, i, result) ==
    IF i < kXlen - 1
    THEN ClmulrLoop(a, b, i + 1,
                    IF BitSet(b, i) THEN Xor(result, Shr(a, kXlen - i - 1))
                    ELSE result)
    ELSE result

Clmulr(a, b) == ClmulrLoop(a, b, 0, {})

\* bclr, bext, binv, bset: the bit selected is 1U << (b & 0x1f)
BitMaskMutant(b) == Shl(WordOf(1), ShAmt(b \cap WordOf(15)))

BitMask(b) == Shl(WordOf(1), ShAmt(b \cap WordOf(31)))

\* bclr: a & ~(1U << (b & 0x1f))
Bclr(a, b) == a \cap (BitPos \ BitMask(b))

\* bext: (a >> (b & 0x1f)) & 0x1
Bext(a, b) == Shr(a, ShAmt(b \cap WordOf(31))) \cap WordOf(1)

\* binv: a ^ (1U << (b & 0x1f))
Binv(a, b) == Xor(a, BitMask(b))

\* bset: a | (1U << (b & 0x1f))
Bset(a, b) == a \cup BitMask(b)


-----------------------------------------------------------------------------
(* Executing one instruction: RiscVBinaryOp reads the two source operands,  *)
(* applies the lambda and writes the destination operand, which the decoder *)
(* may have bound to the register of the first source.                      *)

DataWords ==
    { {}, WordOf(1), {kXlen - 1}, AllOnes, {0, kXlen - 1},
      WordOf(305419896), {1, 3, 4, 9, 17, 20, 29, 30, 31},
      {i \in BitPos : i % 2 = 0} }

ShamtWords == {WordOf(n) : n \in 0..MaxShamt}

Dests == {"rd", "rs1"}

Retire(op, dest, res, ub) ==
    /\ ninst < MaxInsts
    /\ ninst' = ninst + 1
    /\ last' = [op |-> op, a |-> rs1, b |-> rs2, r |-> res]
    /\ oversize' = ub
    /\ rs1' = IF dest = "rs1" THEN res ELSE rs1
    /\ rd' = IF dest = "rd" THEN res ELSE rd
    /\ UNCHANGED rs2
    /\ UNCHANGED dvars

RiscVrol ==
    \E dest \in Dests : \E res \in RolResults(rs1, rs2) :
        Retire("rol", dest, res, \E s \in RolShifts(rs2) : Oversize(s))

RiscVror ==
    \E dest \in Dests : \E res \in RorResults(rs1, rs2) :
        Retire("ror", dest, res, \E s \in RolShifts(rs2) : Oversize(s))

RiscVClmul ==
    \E dest \in Dests :
        Retire("clmul", dest, Clmul(rs1, rs2), ClmulEnd > kXlen)

RiscVClmulh ==
    \E dest \in Dests :
        Retire("clmulh", dest, Clmulh(rs1, rs2),
               \E i \in ClmulhRange : ClmulhShift(i) >= kXlen \/ i >= kXlen)

RiscVClmulr ==
    \E dest \in Dests :
        Retire("clmulr", dest, Clmulr(rs1, rs2), FALSE)

RiscVBclr ==
    \E dest \in Dests : Retire("bclr", dest, Bclr(rs1, rs2), FALSE)

RiscVBext ==
    \E dest \in Dests : Retire("bext", dest, Bext(rs1, rs2), FALSE)

RiscVBinv ==
    \E dest \in Dests : Retire("binv", dest, Binv(rs1, rs2), FALSE)

RiscVBset ==
    \E dest \in Dests : Retire("bset", dest, Bset(rs1, rs2), FALSE)

-----------------------------------------------------------------------------
(* The simulator driver: main() of rv32gv_sim.cc                            *)
(*                                                                         *)
(* An absl::StatusOr or std::optional value is modelled as a set with at   *)
(* most one element: {} is "no value" / "not ok".                          *)

\* SIGINTs delivered in one behaviour.
MaxSigints == 2

\* Instructions counted after a halt request.
MaxExtra == 2

kDefaultStackSize == 32768

Val(opt) == CHOOSE v \in opt : TRUE

\* Values a flag or a symbol may carry.
StackEndValues == {2097152}

StackSizeValues == {16384}

GnuStackValues == {4096}

\* A flag on the command line: <<>> when it is not given, <<{}>> when it is
\* given with an empty value (std::nullopt), <<{v}>> when given with value v.
FlagArgs(values) == {<<>>, <<{}>>} \cup {<<{v}>> : v \in values}

\* ABSL_FLAG(std::optional<uint64_t>, stack_size, 32 * 1024, ...)
FLAGS_stack_size ==
    IF cmd.stack_size = <<>> THEN {kDefaultStackSize} ELSE cmd.stack_size[1]

\* ABSL_FLAG(std::optional<uint64_t>, stack_end, 0, ...)
FLAGS_stack_end ==
    IF cmd.stack_end = <<>> THEN {0} ELSE cmd.stack_end[1]

HtifSymbols == <<"tohost_ready", "tohost", "fromhost_ready", "fromhost">>

HaltCauses == {"ProgramDone", "FatalTrap", "SemihostHalt"}

CoreUnbuilt ==
    [alive |-> FALSE, run_status |-> "Idle", phase |-> "fetch",
     cause |-> "None", halt_request |-> FALSE, halt_reason |-> "None",
     on_ecall |-> FALSE]

HistEmpty ==
    [err_reported |-> FALSE, run_ok |-> TRUE, wait_ok |-> TRUE,
     waited |-> FALSE, started |-> FALSE, sigints |-> 0,
     sigint_running |-> FALSE, sigint_prewait |-> FALSE, dangling |-> FALSE,
     extra |-> 0, outcome |-> "none"]

DriverStart ==
    /\ pc = "args"
    /\ exit_code = 0
    /\ elf = [loaded |-> FALSE, stack_end |-> {}, stack_size |-> {},
              gnu_stack |-> {}]
    /\ stk = [initialize_stack |-> FALSE, stack_end |-> 0, stack_size |-> 0,
              sp |-> {}]
    /\ semi = [magic |-> {}, htif |-> FALSE, arm |-> FALSE]
    /\ top = "null"
    /\ handler = FALSE
    /\ core = CoreUnbuilt
    /\ hist = HistEmpty

Exit(code) ==
    /\ pc' = "exited"
    /\ exit_code' = code

\* return -1 from main() once riscv_top exists: the locals are destroyed and
\* the process exits with status 255.
ReturnError ==
    /\ Exit(255)
    /\ core' = [core EXCEPT !.alive = FALSE]

\* Lines 208-218: the semihosting flags are checked, then the number of
\* input files. With no input file arg_vec[1] reads past the vector: the
\* process crashes or goes on with a garbage file name.
ParseArgs ==
    /\ pc = "args"
    /\ hist' = [hist EXCEPT
                  !.err_reported = cmd.semihost_htif /\ cmd.semihost_arm]
    /\ \/ /\ cmd.nfiles > 1
          /\ Exit(255)
       \/ /\ cmd.nfiles = 1
          /\ pc' = "load"
          /\ UNCHANGED exit_code
       \/ /\ cmd.nfiles = 0
          /\ \/ Exit(139)
             \/ pc' = "load" /\ UNCHANGED exit_code
    /\ UNCHANGED <<cmd, elf, stk, semi, top, handler, core>>
    /\ UNCHANGED bvars

\* Lines 224-233: LoadProgram fails or yields the entry point.
LoadProgram ==
    /\ pc = "load"
    /\ \E ok \in BOOLEAN :
          IF ok /\ cmd.nfiles = 1
          THEN /\ pc' = "setup"
               /\ elf' = [elf EXCEPT !.loaded = TRUE]
               /\ UNCHANGED exit_code
          ELSE /\ Exit(255)
               /\ UNCHANGED elf
    /\ UNCHANGED <<cmd, stk, semi, top, handler, core, hist>>
    /\ UNCHANGED bvars

\* Lines 236-274: state, decoder and riscv_top are built, the ecall handler
\* is set when exit_on_ecall is given, and the pc is written.
Setup ==
    /\ pc = "setup"
    /\ \E pc_write_ok \in BOOLEAN :
          IF pc_write_ok
          THEN /\ pc' = "stack"
               /\ core' = [CoreUnbuilt EXCEPT !.alive = TRUE,
                                              !.on_ecall = cmd.exit_on_ecall]
               /\ UNCHANGED exit_code
          ELSE /\ Exit(255)
               /\ UNCHANGED core
    /\ UNCHANGED <<cmd, elf, stk, semi, top, handler, hist>>
    /\ UNCHANGED bvars

\* Lines 280-294: is there a stack location?
InitializeStack(sym_end) == sym_end /= {} \/ FLAGS_stack_end /= {}

\* Lines 281-306: stack_end is the __stack_end symbol, overridden by the
\* stack_end flag, and then overwritten by the GNU_STACK segment size.
StackEnd(sym_end, gnu) ==
    LET from_symbol == IF sym_end /= {} THEN Val(sym_end) ELSE 0
        from_flag == IF FLAGS_stack_end /= {} THEN Val(FLAGS_stack_end)
                     ELSE from_symbol
    IN  IF gnu /= {} THEN Val(gnu) ELSE from_flag

\* Lines 299-317: stack_size is 32KB, overridden by the __stack_size symbol,
\* overridden by the stack_size flag.
StackSize(sym_size) ==
    LET from_symbol == IF sym_size /= {} THEN Val(sym_size)
                       ELSE kDefaultStackSize
    IN  IF FLAGS_stack_size /= {} THEN Val(FLAGS_stack_size) ELSE from_symbol

\* Lines 276-324.
InitStack ==
    /\ pc = "stack"
    /\ \E sym_end \in {{}} \cup {{v} : v \in StackEndValues} :
          IF InitializeStack(sym_end)
          THEN \E gnu \in {{}} \cup {{v} : v \in GnuStackValues},
                  sym_size \in {{}} \cup {{v} : v \in StackSizeValues},
                  sp_write_ok \in BOOLEAN :
                  /\ elf' = [elf EXCEPT !.stack_end = sym_end,
                                        !.stack_size = sym_size,
                                        !.gnu_stack = gnu]
                  /\ IF sp_write_ok
                     THEN /\ stk' = [initialize_stack |-> TRUE,
                                     stack_end |-> StackEnd(sym_end, gnu),
                                     stack_size |-> StackSize(sym_size),
                                     sp |-> {StackEnd(sym_end, gnu)
                                             + StackSize(sym_size)}]
                          /\ pc' = "htif"
                          /\ UNCHANGED <<exit_code, core>>
                     ELSE /\ stk' = [initialize_stack |-> TRUE,
                                     stack_end |-> StackEnd(sym_end, gnu),
                                     stack_size |-> StackSize(sym_size),
                                     sp |-> {}]
                          /\ ReturnError
          ELSE /\ elf' = [elf EXCEPT !.stack_end = sym_end]
               /\ pc' = "htif"
               /\ UNCHANGED <<stk, exit_code, core>>
    /\ UNCHANGED <<cmd, semi, top, handler, hist>>
    /\ UNCHANGED bvars

\* Lines 160-179: the four symbols are looked up in order; the first one
\* missing ends the lookup. The result is the set of fields of *magic set.
RECURSIVE MagicFields(_, _)
MagicFields(present, i) ==
    IF i > Len(HtifSymbols) \/ HtifSymbols[i] \notin present THEN {}
    ELSE {HtifSymbols[i]} \cup MagicFields(present, i + 1)

GetMagicAddressesMutant(present) ==
    \A i \in 1..(Len(HtifSymbols) - 1) : HtifSymbols[i] \in present

GetMagicAddresses(present) ==
    \A i \in 1..Len(HtifSymbols) : HtifSymbols[i] \in present

\* Lines 326-345.
SetupHtif ==
    /\ pc = "htif"
    /\ IF cmd.semihost_htif
       THEN \E present \in SUBSET {HtifSymbols[i] : i \in 1..Len(HtifSymbols)} :
               semi' = [semi EXCEPT !.magic = MagicFields(present, 1),
                                    !.htif = GetMagicAddresses(present)]
       ELSE UNCHANGED semi
    /\ pc' = "arm"
    /\ UNCHANGED <<cmd, exit_code, elf, stk, top, handler, core, hist>>
    /\ UNCHANGED bvars

\* Lines 347-364.
SetupArm ==
    /\ pc = "arm"
    /\ semi' = [semi EXCEPT !.arm = cmd.semihost_arm]
    /\ pc' = "sigint"
    /\ UNCHANGED <<cmd, exit_code, elf, stk, top, handler, core, hist>>
    /\ UNCHANGED bvars

\* Lines 366-380: the counter is added (CHECK_OK aborts the process when that
\* fails), top is set, the handler is installed, and the mode is chosen.
InstallSigint ==
    /\ pc = "sigint"
    /\ \E add_counter_ok \in BOOLEAN :
          IF add_counter_ok
          THEN /\ top' = "riscv_top"
               /\ handler' = TRUE
               /\ pc' = IF cmd.interactive THEN "shell" ELSE "run"
               /\ UNCHANGED exit_code
          ELSE /\ Exit(134)
               /\ UNCHANGED <<top, handler>>
    /\ UNCHANGED <<cmd, elf, stk, semi, core, hist>>
    /\ UNCHANGED bvars

-----------------------------------------------------------------------------
(* RiscVTop: the run/halt state machine of the core. Its code is not in     *)
(* this part of the repository; it is modelled from the design document.    *)

\* run(): Idle or Halted -> Running. Whether a halt requested before run()
\* survives it is not specified: both outcomes are possible.
TopRun(c, keep_request) ==
    [c EXCEPT !.run_status = "Running", !.phase = "fetch", !.cause = "None",
              !.halt_reason = "None",
              !.halt_request = c.halt_request /\ keep_request]

\* halt(): raise the halt request flag; never blocks.
TopHalt(c) == [c EXCEPT !.halt_request = TRUE]

\* wait() blocks while the core is Running.
TopWaitReturns(c) == c.run_status /= "Running"

\* wait() is ok when the core has halted; with a core that never ran there is
\* nothing to wait for.
TopWaitOk(c) == c.run_status = "Halted"

\* What executing one instruction may ask of the core.
Outcomes == {"normal", "ecall", "illegal", "semihost_exit"}

\* Lines 261-266: with exit_on_ecall the on_ecall handler is set; it requests
\* a halt with kProgramDone and reports the ecall as handled.
OnEcallHaltsMutant == TRUE

OnEcallHalts == core.on_ecall

\* Steps 1-5 of the main loop: fetch, decode, execute, retire one
\* instruction. An ecall is offered to the on_ecall handler of lines 262-265,
\* which requests a halt with kProgramDone; the semihosting callbacks of
\* lines 335-342 and 360-363 request a halt with kSemihostHaltRequest.
CauseOf(outcome) ==
    CASE outcome = "ecall" /\ OnEcallHalts -> "ProgramDone"
      [] outcome = "illegal" -> "FatalTrap"
      [] outcome = "semihost_exit" -> "SemihostHalt"
      [] OTHER -> "None"

CoreExecute ==
    /\ pc /= "exited"
    /\ core.alive
    /\ core.run_status = "Running"
    /\ core.phase = "fetch"
    /\ \E outcome \in Outcomes :
          /\ outcome = "semihost_exit" => semi.htif \/ semi.arm
          /\ core' = [core EXCEPT !.phase = "check", !.cause = CauseOf(outcome)]
          /\ hist' = [hist EXCEPT
                        !.outcome = outcome,
                        !.extra = IF core.halt_request /\ @ < MaxExtra
                                  THEN @ + 1 ELSE @]
    /\ UNCHANGED <<cmd, pc, exit_code, elf, stk, semi, top, handler>>
    /\ UNCHANGED bvars

\* Step 6 of the main loop: at the instruction boundary the core halts when
\* the instruction asked for it or when the halt request flag is set. With
\* both, either is reported.
CoreCheck ==
    /\ pc /= "exited"
    /\ core.alive
    /\ core.run_status = "Running"
    /\ core.phase = "check"
    /\ \/ /\ core.cause /= "None"
          /\ core' = [core EXCEPT !.run_status = "Halted", !.phase = "fetch",
                                  !.halt_reason = core.cause]
       \/ /\ core.halt_request
          /\ core' = [core EXCEPT !.run_status = "Halted", !.phase = "fetch",
                                  !.halt_reason = "UserHalt",
                                  !.halt_request = FALSE]
       \/ /\ core.cause = "None"
          /\ ~core.halt_request
          /\ core' = [core EXCEPT !.phase = "fetch"]
    /\ UNCHANGED <<cmd, pc, exit_code, elf, stk, semi, top, handler, hist>>
    /\ UNCHANGED bvars

-----------------------------------------------------------------------------
(* The SIGINT handler and the rest of main()                                *)

\* Line 149: if (top != nullptr)
HandlerFindsTopMutant == top = "null"

HandlerFindsTop == top /= "null"

\* Lines 148-155. Before sigaction() the default disposition ends the
\* process. The handler calls top->Halt(); when *top has been destroyed the
\* call is undefined: it is a no-op or it crashes the process.
SigInt ==
    /\ pc /= "exited"
    /\ hist.sigints < MaxSigints
    /\ LET h == [hist EXCEPT
                   !.sigints = @ + 1,
                   !.sigint_prewait = @ \/ (handler /\ pc \in {"run", "wait"}),
                   !.sigint_running =
                       @ \/ (handler /\ pc \in {"run", "wait"} /\ core.alive
                             /\ core.run_status = "Running")]
       IN  IF ~handler
           THEN /\ Exit(130)
                /\ hist' = h
                /\ UNCHANGED core
           ELSE IF HandlerFindsTop
           THEN IF core.alive
                THEN /\ core' = TopHalt(core)
                     /\ hist' = h
                     /\ UNCHANGED <<pc, exit_code>>
                ELSE /\ hist' = [h EXCEPT !.dangling = TRUE]
                     /\ UNCHANGED core
                     /\ \/ UNCHANGED <<pc, exit_code>>
                        \/ Exit(139)
           ELSE /\ Exit(255)
                /\ hist' = h
                /\ UNCHANGED core
    /\ UNCHANGED <<cmd, elf, stk, semi, top, handler>>
    /\ UNCHANGED bvars

\* Lines 390-397: Run(); a status that is not ok is printed.
Run ==
    /\ pc = "run"
    /\ \E ok \in BOOLEAN, keep_request \in BOOLEAN :
          /\ core' = IF ok THEN TopRun(core, keep_request) ELSE core
          /\ hist' = [hist EXCEPT !.run_ok = ok, !.started = ok]
    /\ pc' = "wait"
    /\ UNCHANGED <<cmd, exit_code, elf, stk, semi, top, handler>>
    /\ UNCHANGED bvars

\* Lines 399-411: Wait(); a status that is not ok is printed.
Wait ==
    /\ pc = "wait"
    /\ TopWaitReturns(core)
    /\ hist' = [hist EXCEPT !.wait_ok = TopWaitOk(core), !.waited = TRUE]
    /\ pc' = "export"
    /\ UNCHANGED <<cmd, exit_code, elf, stk, semi, top, handler, core>>
    /\ UNCHANGED bvars

\* Lines 381-388: the interactive shell runs until the user quits; it may
\* have run the core to a halt.
Shell ==
    /\ pc = "shell"
    /\ \E reason \in {"None", "UserHalt"} \cup HaltCauses :
          /\ reason = "ProgramDone" => core.on_ecall
          /\ reason = "SemihostHalt" => semi.htif \/ semi.arm
          /\ core' = IF reason = "None" THEN core
                     ELSE [core EXCEPT !.run_status = "Halted",
                                       !.halt_reason = reason]
          /\ hist' = [hist EXCEPT !.started = reason /= "None"]
    /\ pc' = "export"
    /\ UNCHANGED <<cmd, exit_code, elf, stk, semi, top, handler>>
    /\ UNCHANGED bvars

\* Lines 413-431: the counters are exported (CHECK_OK aborts the process
\* when that fails) and written to the proto file.
Export ==
    /\ pc = "export"
    /\ \E export_ok \in BOOLEAN :
          IF export_ok
          THEN pc' = "cleanup" /\ UNCHANGED exit_code
          ELSE Exit(134)
    /\ UNCHANGED <<cmd, elf, stk, semi, top, handler, core, hist>>
    /\ UNCHANGED bvars

\* Lines 433-442: breakpoints are cleared, the memories and the semihosting
\* objects are deleted. top is left as it is.
Cleanup ==
    /\ pc = "cleanup"
    /\ pc' = "return"
    /\ UNCHANGED <<cmd, exit_code, elf, stk, semi, top, handler, core, hist>>
    /\ UNCHANGED bvars

\* Line 443: main() falls off its end: the locals, riscv_top among them, are
\* destroyed.
Return ==
    /\ pc = "return"
    /\ core' = [core EXCEPT !.alive = FALSE]
    /\ pc' = "unwound"
    /\ UNCHANGED <<cmd, exit_code, elf, stk, semi, top, handler, hist>>
    /\ UNCHANGED bvars

\* Line 443: reaching the end of main() returns 0.
ProcessExit ==
    /\ pc = "unwound"
    /\ Exit(0)
    /\ UNCHANGED <<cmd, elf, stk, semi, top, handler, core, hist>>
    /\ UNCHANGED bvars

-----------------------------------------------------------------------------
(* Specifications *)

CommandLines ==
    [semihost_htif : BOOLEAN, semihost_arm : BOOLEAN, interactive : BOOLEAN,
     exit_on_ecall : BOOLEAN, stack_size : FlagArgs(StackSizeValues),
     stack_end : FlagArgs(StackEndValues), nfiles : 0..2]

BitmanipIdle ==
    /\ rs1 = {}
    /\ rs2 = {}
    /\ rd = {}
    /\ last = [op |-> "none", a |-> {}, b |-> {}, r |-> {}]
    /\ ninst = 0
    /\ oversize = FALSE

Init ==
    /\ cmd \in CommandLines
    /\ DriverStart
    /\ BitmanipIdle

Main ==
    \/ ParseArgs
    \/ LoadProgram
    \/ Setup
    \/ InitStack
    \/ SetupHtif
    \/ SetupArm
    \/ InstallSigint
    \/ Run
    \/ Wait
    \/ Shell
    \/ Export
    \/ Cleanup
    \/ Return
    \/ ProcessExit

Next ==
    \/ Main
    \/ CoreExecute
    \/ CoreCheck
    \/ SigInt

Spec == Init /\ [][Next]_vars

\* Command lines that leave the stack flags at their defaults: the flags play
\* no part once the stack pointer is written.
InitLive ==
    /\ Init
    /\ cmd.stack_size = <<>>
    /\ cmd.stack_end = <<>>

\* The main thread and the simulation thread are scheduled by the operating
\* system: neither stops while it has a step to take. Nothing obliges a
\* SIGINT to arrive.
SpecLive ==
    /\ InitLive
    /\ [][Next]_vars
    /\ WF_vars(Main)
    /\ WF_vars(CoreExecute)
    /\ WF_vars(CoreCheck)

\* The bit manipulation instructions, every pair of operands of the
\* operand sets, while the driver stands still.
InitBitmanip ==
    /\ rs1 \in DataWords
    /\ rs2 \in DataWords \cup ShamtWords
    /\ rd = {}
    /\ last = [op |-> "none", a |-> {}, b |-> {}, r |-> {}]
    /\ ninst = 0
    /\ oversize = FALSE
    /\ cmd = [semihost_htif |-> FALSE, semihost_arm |-> FALSE,
              interactive |-> FALSE, exit_on_ecall |-> FALSE,
              stack_size |-> <<>>, stack_end |-> <<>>, nfiles |-> 1]
    /\ DriverStart

NextBitmanip ==
    \/ RiscVrol
    \/ RiscVror
    \/ RiscVClmul
    \/ RiscVClmulh
    \/ RiscVClmulr
    \/ RiscVBclr
    \/ RiscVBext
    \/ RiscVBinv
    \/ RiscVBset

SpecBitmanip == InitBitmanip /\ [][NextBitmanip]_vars

-----------------------------------------------------------------------------
(* Reference definitions used by the properties *)

\* x rotated left / right by k, 0 <= k < 32
RotL(x, k) == {(i + k) % kXlen : i \in x}

RotR(x, k) == {(i + kXlen - k) % kXlen : i \in x}

\* The 2*XLEN-bit carry-less product: bit k is the XOR of a_i & b_(k-i).
ClProduct(a, b) ==
    {k \in 0..(2 * kXlen - 1) : Cardinality({i \in a : (k - i) \in b}) % 2 = 1}

\* Bits [hi : lo] of p, moved down to position 0.
BitField(p, hi, lo) == {k - lo : k \in {j \in p : j >= lo /\ j <= hi}}

-----------------------------------------------------------------------------
(* Properties of the bit manipulation instructions *)

\* C1: rol yields rs1 rotated left by (rs2 mod 32) and ror yields rs1 rotated
\* right by (rs2 mod 32), for every rs2, and neither evaluates a shift by 32
\* or more bits.
C1_RotateMasksShamt ==
    /\ last.op = "rol" => last.r = RotL(last.a, ShAmt(last.b)) /\ ~oversize
    /\ last.op = "ror" => last.r = RotR(last.a, ShAmt(last.b)) /\ ~oversize

\* C2: clmulr returns bits [2*XLEN-2 : XLEN-1] of the carry-less product of
\* its operands, the most significant bit of rs2 included.
C2_ClmulrIsProductField ==
    last.op = "clmulr" =>
        last.r = BitField(ClProduct(last.a, last.b), 2 * kXlen - 2, kXlen - 1)

\* C9: clmul returns the low 32 bits of the carry-less product of its
\* operands; clmul(0xFFFFFFFF, 0xFFFFFFFF) is 0x55555555.
C9_ClmulIsProductLow ==
    last.op = "clmul" =>
        /\ last.r = BitField(ClProduct(last.a, last.b), kXlen - 1, 0)
        /\ (last.a = AllOnes /\ last.b = AllOnes) => last.r = WordOf(1431655765)

C9_Witness ==
    /\ last.op = "clmul"
    /\ last.a = AllOnes
    /\ last.b = AllOnes
    /\ last.r = {i \in BitPos : i % 2 = 0}

\* C10: clmulh returns bits [2*XLEN-1 : XLEN] of the carry-less product of its
\* operands and evaluates no shift by XLEN or more bits.
C10_ClmulhIsProductHigh ==
    last.op = "clmulh" =>
        /\ last.r = BitField(ClProduct(last.a, last.b), 2 * kXlen - 1, kXlen)
        /\ ~oversize

C10_Witness ==
    /\ last.op = "clmulh"
    /\ (kXlen - 1) \in last.a
    /\ (kXlen - 1) \in last.b
    /\ (kXlen - 2) \in last.r

\* C11: with k = rs2 mod 32, bset returns rs1 with bit k set, bclr with bit k
\* cleared, binv with bit k flipped, and bext returns bit k of rs1 as 0 or 1;
\* hence bext(bset(x, k), k) = 1 and bclr(bset(x, k), k) = bclr(x, k).
C11_SingleBitOps ==
    LET k == ShAmt(last.b)
    IN  /\ last.op = "bset" =>
              /\ last.r = last.a \cup {k}
              /\ Bext(last.r, last.b) = WordOf(1)
              /\ Bclr(last.r, last.b) = Bclr(last.a, last.b)
        /\ last.op = "bclr" => last.r = last.a \ {k}
        /\ last.op = "binv" =>
              last.r = IF k \in last.a THEN last.a \ {k} ELSE last.a \cup {k}
        /\ last.op = "bext" => last.r = IF k \in last.a THEN {0} ELSE {}

C11_Witness ==
    /\ last.op = "bset"
    /\ Oversize(last.b)
    /\ ShAmt(last.b) >= 16
    /\ ShAmt(last.b) \notin last.a
    /\ ShAmt(last.b) \in last.r

-----------------------------------------------------------------------------
(* Properties of the driver *)

\* The stack base the documentation of the flags defines: the stack_end flag
\* when it has a value, else the __stack_end symbol.
StackBaseKnown == FLAGS_stack_end /= {} \/ elf.stack_end /= {}

StackBase ==
    IF FLAGS_stack_end /= {} THEN Val(FLAGS_stack_end) ELSE Val(elf.stack_end)

\* C3: whenever a stack base is known, the value written to sp is
\* stack_base + stack_size, where stack_base is the stack_end flag if it is
\* set and else the __stack_end symbol; the GNU_STACK segment size never
\* changes stack_base.
C3_SpIsBasePlusSize ==
    (StackBaseKnown /\ stk.sp /= {}) =>
        stk.sp = {StackBase + stk.stack_size}

\* C4: the stack size is the stack_size flag if set, else the __stack_size
\* symbol if defined, else the GNU_STACK segment size if the loader reports
\* one, else 32 KiB.
C4_StackSizePrecedence ==
    stk.sp /= {} =>
        stk.stack_size =
            (IF FLAGS_stack_size /= {} THEN Val(FLAGS_stack_size)
             ELSE IF elf.stack_size /= {} THEN Val(elf.stack_size)
             ELSE IF elf.gnu_stack /= {} THEN Val(elf.gnu_stack)
             ELSE kDefaultStackSize)

RuntimeError ==
    \/ ~hist.run_ok
    \/ ~hist.wait_ok
    \/ core.halt_reason = "FatalTrap"

C6_ErrorsExitNonzero ==
    (pc = "exited" /\ (cmd.nfiles > 1 \/ ~elf.loaded \/ RuntimeError)) =>
        exit_code /= 0

\* C7: top is set to the core before the run loop is entered and is null
\* once the core is torn down, so the handler never calls Halt() through top
\* on a core that has been destroyed.
C7_TopClearedBeforeTeardown ==
    /\ core.run_status = "Running" => top = "riscv_top"
    /\ pc = "unwound" => top = "null"
    /\ ~hist.dangling

\* C8: with both semihost_htif and semihost_arm given the error is reported,
\* the core is never started and the process exits with a nonzero code; the
\* HTIF watcher and the ARM ebreak handler are never both installed.
C8_SemihostExclusive ==
    /\ (cmd.semihost_htif /\ cmd.semihost_arm) =>
          /\ pc = "load" => hist.err_reported
          /\ ~hist.started
          /\ pc = "exited" => exit_code /= 0
    /\ ~(semi.htif /\ semi.arm)

\* C12: if neither the stack_end flag is given a value by the user nor the
\* executable defines __stack_end, sp is not written.
C12_NoStackBaseNoSpWrite ==
    (cmd.stack_end \in {<<>>, <<{}>>} /\ elf.stack_end = {}) => stk.sp = {}

\* C13: with exit_on_ecall an executed ecall requests a halt with ProgramDone
\* and the core halts with reason ProgramDone; without exit_on_ecall no ecall
\* handler is installed and the core never halts with ProgramDone.
C13_EcallProgramDone ==
    /\ (cmd.exit_on_ecall /\ hist.outcome = "ecall") =>
          /\ core.cause = "ProgramDone"
          /\ core.run_status = "Halted" => core.halt_reason = "ProgramDone"
    /\ ~cmd.exit_on_ecall =>
          /\ ~core.on_ecall
          /\ core.halt_reason /= "ProgramDone"

\* C13 as amended: with exit_on_ecall an executed ecall requests a halt with
\* ProgramDone and is the last instruction executed; the core halts with
\* reason ProgramDone, or with UserHalt when a SIGINT was handled before the
\* core halted. Without exit_on_ecall no ecall handler is installed and the
\* core never halts with ProgramDone.
C13_EcallProgramDoneUnlessSigint ==
    /\ (cmd.exit_on_ecall /\ hist.outcome = "ecall") =>
          /\ core.cause = "ProgramDone"
          /\ core.run_status = "Running" => core.phase = "check"
          /\ core.run_status = "Halted" =>
                \/ core.halt_reason = "ProgramDone"
                \/ core.halt_reason = "UserHalt" /\ hist.sigints > 0
    /\ ~cmd.exit_on_ecall =>
          /\ ~core.on_ecall
          /\ core.halt_reason /= "ProgramDone"

C13_Witness ==
    /\ cmd.exit_on_ecall
    /\ ~cmd.interactive
    /\ hist.outcome = "ecall"
    /\ hist.waited
    /\ core.halt_reason = "ProgramDone"

\* C14: the HTIF watcher and semihost are installed, and the memory of the
\* state rerouted, if and only if semihost_htif is given and all four magic
\* symbols resolve; otherwise nothing is installed, and in both cases main()
\* goes on to the next step without an error or an exit.
C14_HtifAllOrNothing ==
    /\ [](semi.htif <=>
            (cmd.semihost_htif
             /\ semi.magic = {HtifSymbols[i] : i \in 1..Len(HtifSymbols)}))
    /\ [][(pc = "htif" /\ hist'.sigints = hist.sigints) =>
            /\ pc' = "arm"
            /\ exit_code' = exit_code
            /\ core' = core
            /\ hist' = hist
            /\ ~cmd.semihost_htif => semi' = semi]_vars

C14_Witness ==
    /\ pc = "arm"
    /\ cmd.semihost_htif
    /\ Cardinality(semi.magic) = Len(HtifSymbols) - 1
    /\ ~semi.htif
    /\ exit_code = 0

====
